---- MODULE Spec2Model ----
(***************************************************************************)
(* A model of the just_fmt crate: the word-case formatter of               *)
(* src/fmt_case_style.rs and the path normalizer of src/fmt_path.rs.       *)
(*                                                                         *)
(* A Rust String is modelled as a sequence of characters, a character as a *)
(* one-character TLA+ string.  A Vec<String> is a sequence of such         *)
(* sequences.  The path normalizer is modelled as built for a Unix target  *)
(* (the separator of std::path is '/', a backslash is an ordinary          *)
(* character of a component) and without the cargo feature "strip-ansi";   *)
(* the paths explored hold no escape sequence, which is all that step      *)
(* would remove.                                                           *)
(***************************************************************************)
EXTENDS Naturals, Sequences, FiniteSets

VARIABLES
    input,      \* the string a CaseFormatter was constructed from
    content,    \* CaseFormatter.content: the token sequence
    style,      \* the render method last called on the formatter, or "none"
    output,     \* the string that call returned
    prev,       \* <<>>, or <<r>>: the formatter whose output became `input`
    path,       \* the string given to fmt_path_str / fmt_path_str_custom
    config,     \* the PathFormatConfig of the call
    called,     \* whether the call on `path` has returned
    returned,   \* the string it returned (the Ok value)
    before,     \* <<>>, or <<r>>: the call whose result became `path`
    npath,      \* the path given to normalize_path
    pending,    \* its components not yet visited by the loop
    components, \* normalize_path's stack of kept components
    npc,        \* "loop" while normalize_path iterates, "done" once returned
    normalized  \* the PathBuf normalize_path returned, as a string

caseVars == <<input, content, style, output, prev>>
pathVars == <<path, config, called, returned, before>>
normVars == <<npath, pending, components, npc, normalized>>
vars == <<caseVars, pathVars, normVars>>

(***************************************************************************)
(* Bounds of the explored inputs.                                          *)
(***************************************************************************)
MaxLen == 4
MaxPathLen == 4
MaxNormLen == 7

(***************************************************************************)
(* Characters.                                                             *)
(***************************************************************************)
LowerLetters == {"a", "b"}
UpperLetters == {"A", "B"}
Digits == {"1"}
\* Separators with the hyphen forgotten
SeparatorsNoHyphen == {"_", ",", ".", " "}

\* the separator arm of the match in str_split
Separators == {"_", ",", ".", "-", " "}
\* characters of the inputs explored: a lowercase and an uppercase letter, a
\* digit, two separators, a symbol and a non-ASCII lowercase letter
CaseAlphabet == {"a", "B", "1", "_", ",", "&", "é"}

\* the first arm of the match in str_split: 'a'..='z' | 'A'..='Z' | '0'..='9'
IsAsciiAlnum(c) == c \in LowerLetters \cup UpperLetters \cup Digits

\* char::is_lowercase and char::is_uppercase (Unicode properties)
is_lowercase(c) == c \in LowerLetters \cup {"é"}
is_uppercase(c) == c \in UpperLetters \cup {"É"}

\* char::to_lowercase and char::to_uppercase
CharToLower(c) ==
    CASE c = "A" -> "a"
      [] c = "B" -> "b"
      [] c = "É" -> "é"
      [] OTHER -> c

CharToUpper(c) ==
    CASE c = "a" -> "A"
      [] c = "b" -> "B"
      [] c = "é" -> "É"
      [] OTHER -> c

\* str::to_lowercase and str::to_uppercase
to_lowercase(s) == [i \in 1..Len(s) |-> CharToLower(s[i])]
to_uppercase(s) == [i \in 1..Len(s) |-> CharToUpper(s[i])]

\* all strings over an alphabet up to a length
StringsUpTo(alphabet, n) == UNION {[1..k -> alphabet] : k \in 0..n}

\* Pass1 with an unrecognized character treated as a separator
RECURSIVE Pass1SymbolBreaks(_, _, _)
Pass1SymbolBreaks(rest, result, prev_space) ==
    IF rest = <<>> THEN result
    ELSE LET c == Head(rest) IN
         IF IsAsciiAlnum(c)
           THEN Pass1SymbolBreaks(Tail(rest), Append(result, c), FALSE)
         ELSE IF ~prev_space
           THEN Pass1SymbolBreaks(Tail(rest), Append(result, " "), TRUE)
         ELSE Pass1SymbolBreaks(Tail(rest), result, prev_space)

(***************************************************************************)
(* str_split, pass 1: keep ASCII letters and digits, turn a run of         *)
(* separators into one space, drop everything else.                        *)
(***************************************************************************)
RECURSIVE Pass1(_, _, _)
Pass1(rest, result, prev_space) ==
    IF rest = <<>> THEN result
    ELSE LET c == Head(rest) IN
         IF IsAsciiAlnum(c)
           THEN Pass1(Tail(rest), Append(result, c), FALSE)
         ELSE IF c \in Separators
           THEN IF ~prev_space
                  THEN Pass1(Tail(rest), Append(result, " "), TRUE)
                  ELSE Pass1(Tail(rest), result, prev_space)
         ELSE Pass1(Tail(rest), result, prev_space)

\* Pass2 without the case-boundary detection
Pass2NoBoundary(chars, processed) == processed \o chars

(***************************************************************************)
(* str_split, pass 2: push each character, and a space after it when it is *)
(* lowercase and the next one is uppercase.                                *)
(***************************************************************************)
RECURSIVE Pass2(_, _)
Pass2(chars, processed) ==
    IF chars = <<>> THEN processed
    ELSE LET c == Head(chars)
             pushed == Append(processed, c)
         IN  IF Len(chars) > 1 /\ is_lowercase(c) /\ is_uppercase(chars[2])
               THEN Pass2(Tail(chars), Append(pushed, " "))
               ELSE Pass2(Tail(chars), pushed)

\* str::split_whitespace: the maximal runs of non-space characters
RECURSIVE SplitWs(_, _, _)
SplitWs(s, cur, acc) ==
    IF s = <<>> THEN (IF cur = <<>> THEN acc ELSE Append(acc, cur))
    ELSE IF Head(s) = " "
      THEN SplitWs(Tail(s), <<>>, IF cur = <<>> THEN acc ELSE Append(acc, cur))
      ELSE SplitWs(Tail(s), Append(cur, Head(s)), acc)

split_whitespace(s) == SplitWs(s, <<>>, <<>>)

\* str_split without the final to_lowercase
StrSplitNoFold(s) == split_whitespace(Pass2(Pass1(s, <<>>, FALSE), <<>>))

str_split(s) ==
    split_whitespace(to_lowercase(Pass2(Pass1(s, <<>>, FALSE), <<>>)))

(***************************************************************************)
(* The eight render methods of CaseFormatter.                              *)
(***************************************************************************)
\* first.to_uppercase() followed by the rest lowercased
Capitalize(word) ==
    IF word = <<>> THEN <<>>
    ELSE <<CharToUpper(Head(word))>> \o to_lowercase(Tail(word))

RECURSIVE Concat(_)
Concat(words) ==
    IF words = <<>> THEN <<>> ELSE Head(words) \o Concat(Tail(words))

\* [String]::join
RECURSIVE join(_, _)
join(words, sep) ==
    IF words = <<>> THEN <<>>
    ELSE IF Len(words) = 1 THEN Head(words)
    ELSE Head(words) \o sep \o join(Tail(words), sep)

to_camel_case(c) ==
    Concat([i \in 1..Len(c) |->
              IF i = 1 THEN to_lowercase(c[i]) ELSE Capitalize(c[i])])

to_pascal_case(c) == Concat([i \in 1..Len(c) |-> Capitalize(c[i])])

to_kebab_case(c) == to_lowercase(join(c, <<"-">>))

\* to_snake_case joining with the empty string
SnakeJoinEmpty(c) == to_lowercase(join(c, <<>>))

to_snake_case(c) == to_lowercase(join(c, <<"_">>))

to_dot_case(c) == to_lowercase(join(c, <<".">>))

\* every word capitalized and followed by a space, then the last char popped
to_title_case(c) ==
    LET result == Concat([i \in 1..Len(c) |-> Append(Capitalize(c[i]), " ")])
    IN  IF result = <<>> THEN <<>> ELSE SubSeq(result, 1, Len(result) - 1)

to_lower_case(c) == to_lowercase(join(c, <<" ">>))

to_upper_case(c) == to_uppercase(join(c, <<" ">>))

Styles == {"camel", "pascal", "kebab", "snake", "dot", "title", "lower", "upper"}

(***************************************************************************)
(* The path normalizer of fmt_path.rs.                                     *)
(***************************************************************************)
\* characters of the paths explored: a name character, the dot, both
\* slashes and one of the characters strip_unfriendly_chars removes
PathAlphabet == {"a", ".", "/", "\\", "*"}
\* characters of the paths given to normalize_path alone
NormAlphabet == {"a", ".", "/"}

\* PathFormatConfig (without the field of the feature "strip-ansi")
Configs ==
    [strip_unfriendly_chars : BOOLEAN,
     resolve_parent_dirs : BOOLEAN,
     collapse_consecutive_slashes : BOOLEAN,
     escape_backslashes : BOOLEAN]

\* PathFormatConfig::default()
DefaultConfig ==
    [strip_unfriendly_chars |-> TRUE,
     resolve_parent_dirs |-> TRUE,
     collapse_consecutive_slashes |-> TRUE,
     escape_backslashes |-> TRUE]

\* str::ends_with('/')
ends_with_slash(s) == s # <<>> /\ s[Len(s)] = "/"

\* str::replace('\\', "/")
replace_backslashes(s) ==
    [i \in 1..Len(s) |-> IF s[i] = "\\" THEN "/" ELSE s[i]]

\* the initial value of prev_char, '\0'
Nul == "NUL"

\* the loop over path_result.chars(): with collapsing enabled a '/' that
\* follows a '/' is skipped, every other character is pushed
RECURSIVE CollapseLoop(_, _, _, _)
CollapseLoop(rest, acc, prev_char, collapse) ==
    IF rest = <<>> THEN acc
    ELSE LET c == Head(rest) IN
         IF collapse /\ c = "/" /\ prev_char = "/"
           THEN CollapseLoop(Tail(rest), acc, prev_char, collapse)
           ELSE CollapseLoop(Tail(rest), Append(acc, c), c, collapse)

unfriendly_chars == {"*", "?", "\"", "<", ">", "|"}

IsFriendly(c) == c \notin unfriendly_chars

StripUnfriendly(s) == SelectSeq(s, IsFriendly)

(***************************************************************************)
(* std::path on Unix.  Path::components yields RootDir for a leading '/',  *)
(* CurDir for a leading "." component of a relative path, ParentDir for    *)
(* each "..", Normal for every other non-empty piece between slashes;      *)
(* empty pieces and every other "." are skipped.                           *)
(***************************************************************************)
RootDir == [kind |-> "RootDir", name |-> <<"/">>]
CurDir == [kind |-> "CurDir", name |-> <<".">>]
ParentDir == [kind |-> "ParentDir", name |-> <<".", ".">>]
Normal(piece) == [kind |-> "Normal", name |-> piece]

\* the pieces of s between slashes, empty ones included
RECURSIVE SplitSlash(_, _, _)
SplitSlash(s, cur, acc) ==
    IF s = <<>> THEN Append(acc, cur)
    ELSE IF Head(s) = "/"
      THEN SplitSlash(Tail(s), <<>>, Append(acc, cur))
      ELSE SplitSlash(Tail(s), Append(cur, Head(s)), acc)

RECURSIVE ParseBody(_)
ParseBody(pieces) ==
    IF pieces = <<>> THEN <<>>
    ELSE LET piece == Head(pieces) IN
         IF piece = <<>> \/ piece = <<".">>
           THEN ParseBody(Tail(pieces))
         ELSE IF piece = <<".", ".">>
           THEN <<ParentDir>> \o ParseBody(Tail(pieces))
         ELSE <<Normal(piece)>> \o ParseBody(Tail(pieces))

Components(s) ==
    LET pieces == SplitSlash(s, <<>>, <<>>)
        start == IF s # <<>> /\ s[1] = "/" THEN <<RootDir>>
                 ELSE IF Head(pieces) = <<".">> THEN <<CurDir>>
                 ELSE <<>>
    IN  start \o ParseBody(pieces)

\* PathBuf::push: an absolute path replaces the buffer, any other is
\* appended after a separator unless the buffer is empty or ends with one
Push(buf, p) ==
    IF p[1] = "/" THEN p
    ELSE IF buf # <<>> /\ buf[Len(buf)] # "/" THEN buf \o <<"/">> \o p
    ELSE buf \o p

\* components.iter().collect::<PathBuf>()
RECURSIVE Collect(_, _)
Collect(comps, buf) ==
    IF comps = <<>> THEN buf
    ELSE Collect(Tail(comps), Push(buf, Head(comps).name))

\* Visit keeping a ".." that finds the stack empty
VisitKeepParent(stack, component) ==
    IF component.kind = "ParentDir"
      THEN IF stack # <<>> THEN SubSeq(stack, 1, Len(stack) - 1)
           ELSE Append(stack, component)
    ELSE IF component.kind = "CurDir"
      THEN stack
    ELSE Append(stack, component)

\* one iteration of the loop of normalize_path: the match on the component
Visit(stack, component) ==
    IF component.kind = "ParentDir"
      THEN IF stack # <<>> THEN SubSeq(stack, 1, Len(stack) - 1) ELSE stack
    ELSE IF component.kind = "CurDir"
      THEN stack
    ELSE Append(stack, component)

\* what normalize_path returns for the stack the loop leaves
Finish(stack) ==
    IF stack = <<>> THEN <<".">> ELSE Collect(stack, <<>>)

RECURSIVE VisitAll(_, _)
VisitAll(comps, stack) ==
    IF comps = <<>> THEN stack
    ELSE VisitAll(Tail(comps), Visit(stack, Head(comps)))

\* normalize_path(&PathBuf::from(s)), as a string
normalize_path(s) == Finish(VisitAll(Components(s), <<>>))

\* RestoreTrailingSlash restoring nothing
TrailingSlashDropped(s, had_slash) == s

\* "Restore trailing slash if original path had one"
RestoreTrailingSlash(s, had_slash) ==
    IF had_slash /\ ~ends_with_slash(s) THEN Append(s, "/") ELSE s

\* fmt_path_str_custom up to the restored trailing slash
Transformed(p, c) ==
    LET had_slash == ends_with_slash(p)
        unified == IF c.escape_backslashes THEN replace_backslashes(p) ELSE p
        collapsed == CollapseLoop(unified, <<>>, Nul, c.collapse_consecutive_slashes)
        stripped == IF c.strip_unfriendly_chars
                      THEN StripUnfriendly(collapsed) ELSE collapsed
        resolved == IF c.resolve_parent_dirs
                      THEN normalize_path(stripped) ELSE stripped
    IN  RestoreTrailingSlash(replace_backslashes(resolved), had_slash)

\* "Special case: when result is only "./", return """
fmt_path_str_custom(p, c) ==
    IF Transformed(p, c) = <<".", "/">> THEN <<>> ELSE Transformed(p, c)

fmt_path_str(p) == fmt_path_str_custom(p, DefaultConfig)

\* the variables of a component that a specification does not explore
CaseUnused ==
    /\ input = <<>>
    /\ content = <<>>
    /\ style = "none"
    /\ output = <<>>
    /\ prev = <<>>

PathUnused ==
    /\ path = <<>>
    /\ config = DefaultConfig
    /\ called = FALSE
    /\ returned = <<>>
    /\ before = <<>>

NormUnused ==
    /\ npath = <<>>
    /\ pending = <<>>
    /\ components = <<>>
    /\ npc = "done"
    /\ normalized = <<>>

(***************************************************************************)
(* The formatter as a state machine: constructed from a string, rendered   *)
(* by one of the eight methods, and a second formatter constructed from    *)
(* the rendered string.                                                    *)
(***************************************************************************)
InitCase ==
    /\ input \in StringsUpTo(CaseAlphabet, MaxLen)
    /\ content = str_split(input)
    /\ style = "none"
    /\ output = <<>>
    /\ prev = <<>>
    /\ PathUnused
    /\ NormUnused

Render(s, text) ==
    /\ style = "none"
    /\ style' = s
    /\ output' = text
    /\ UNCHANGED <<input, content, prev, pathVars, normVars>>

ToCamelCase == Render("camel", to_camel_case(content))
ToPascalCase == Render("pascal", to_pascal_case(content))
ToKebabCase == Render("kebab", to_kebab_case(content))
ToSnakeCase == Render("snake", to_snake_case(content))
ToDotCase == Render("dot", to_dot_case(content))
ToTitleCase == Render("title", to_title_case(content))
ToLowerCase == Render("lower", to_lower_case(content))
ToUpperCase == Render("upper", to_upper_case(content))

\* CaseFormatter::from(output): a new formatter from the rendered string
From ==
    /\ style # "none"
    /\ prev = <<>>
    /\ prev' = <<[content |-> content, style |-> style, output |-> output]>>
    /\ input' = output
    /\ content' = str_split(output)
    /\ style' = "none"
    /\ output' = <<>>
    /\ UNCHANGED <<pathVars, normVars>>

NextCase ==
    \/ ToCamelCase
    \/ ToPascalCase
    \/ ToKebabCase
    \/ ToSnakeCase
    \/ ToDotCase
    \/ ToTitleCase
    \/ ToLowerCase
    \/ ToUpperCase
    \/ From

SpecCase == InitCase /\ [][NextCase]_vars

(***************************************************************************)
(* The path normalizer as a state machine: a call of fmt_path_str or       *)
(* fmt_path_str_custom on a path, and a second call on what the first      *)
(* returned.                                                               *)
(***************************************************************************)
InitPath ==
    /\ path \in StringsUpTo(PathAlphabet, MaxPathLen)
    /\ config \in Configs
    /\ called = FALSE
    /\ returned = <<>>
    /\ before = <<>>
    /\ CaseUnused
    /\ NormUnused

\* fmt_path_str(path): the call is made with the default configuration
FmtPathStr ==
    /\ ~called
    /\ config' = DefaultConfig
    /\ returned' = fmt_path_str(path)
    /\ called' = TRUE
    /\ UNCHANGED <<path, before, caseVars, normVars>>

\* fmt_path_str_custom(path, &config)
FmtPathStrCustom ==
    /\ ~called
    /\ returned' = fmt_path_str_custom(path, config)
    /\ called' = TRUE
    /\ UNCHANGED <<path, config, before, caseVars, normVars>>

\* the caller passes the returned string to a second call
PassResult ==
    /\ called
    /\ before = <<>>
    /\ before' = <<[path |-> path, config |-> config, returned |-> returned]>>
    /\ path' = returned
    /\ called' = FALSE
    /\ returned' = <<>>
    /\ UNCHANGED <<config, caseVars, normVars>>

NextPath ==
    \/ FmtPathStr
    \/ FmtPathStrCustom
    \/ PassResult

SpecPath == InitPath /\ [][NextPath]_vars

(***************************************************************************)
(* normalize_path alone, one loop iteration per step.                      *)
(***************************************************************************)
InitNorm ==
    /\ npath \in StringsUpTo(NormAlphabet, MaxNormLen)
    /\ pending = Components(npath)
    /\ components = <<>>
    /\ npc = "loop"
    /\ normalized = <<>>
    /\ CaseUnused
    /\ PathUnused

\* Component::ParentDir => pop unless the stack is empty
VisitParentDir ==
    /\ npc = "loop"
    /\ pending # <<>>
    /\ Head(pending).kind = "ParentDir"
    /\ components' = Visit(components, Head(pending))
    /\ pending' = Tail(pending)
    /\ UNCHANGED <<npath, npc, normalized, caseVars, pathVars>>

\* Component::CurDir => skip
VisitCurDir ==
    /\ npc = "loop"
    /\ pending # <<>>
    /\ Head(pending).kind = "CurDir"
    /\ components' = Visit(components, Head(pending))
    /\ pending' = Tail(pending)
    /\ UNCHANGED <<npath, npc, normalized, caseVars, pathVars>>

\* _ => push
VisitOther ==
    /\ npc = "loop"
    /\ pending # <<>>
    /\ Head(pending).kind \in {"RootDir", "Normal"}
    /\ components' = Visit(components, Head(pending))
    /\ pending' = Tail(pending)
    /\ UNCHANGED <<npath, npc, normalized, caseVars, pathVars>>

\* the loop is over: "." for an empty stack, else the collected PathBuf
Return ==
    /\ npc = "loop"
    /\ pending = <<>>
    /\ normalized' = Finish(components)
    /\ npc' = "done"
    /\ UNCHANGED <<npath, pending, components, caseVars, pathVars>>

NextNorm ==
    \/ VisitParentDir
    \/ VisitCurDir
    \/ VisitOther
    \/ Return

SpecNorm == InitNorm /\ [][NextNorm]_vars

(***************************************************************************)
(* Properties of the case formatter, checked under SpecCase.               *)
(***************************************************************************)
\* the styles that join the tokens with a separator character
SeparatorStyles == {"kebab", "snake", "dot", "title", "lower", "upper"}

IsLetter(c) == c \in LowerLetters \cup UpperLetters

\* token i of `tokens` is rendered by `s` with its last character a lowercase
\* letter: camelCase lowercases its first token whole, and a capitalized
\* token ends in lowercase only when it has a second character
EndsLowerRendered(tokens, i, s) ==
    /\ IsLetter(tokens[i][Len(tokens[i])])
    /\ (Len(tokens[i]) >= 2 \/ (s = "camel" /\ i = 1))

\* the boundary after token i survives the concatenation done by camelCase
\* and PascalCase: a lowercase letter is followed by an uppercase letter
BoundaryKept(tokens, i, s) ==
    /\ EndsLowerRendered(tokens, i, s)
    /\ IsLetter(tokens[i + 1][1])

\* the formatter was constructed from the output of an earlier formatter
Retokenized == prev # <<>>

\* ... and has been rendered in the style that produced its input
Rerendered == Retokenized /\ style = prev[1].style

\* C1 as stated: rendering a style, re-tokenizing the result and rendering
\* the same style again returns the identical string, for all eight styles.
C1_IdempotentAllStyles == Rerendered => output = prev[1].output

\* C1 amended: re-rendering is idempotent for the six separator-joined styles;
\* for to_camel_case and to_pascal_case it is idempotent exactly when every
\* token after the first begins with a digit or follows a kept boundary.
C1_IdempotentAmended ==
    Rerendered =>
        IF style \in SeparatorStyles
          THEN output = prev[1].output
          ELSE (output = prev[1].output) <=>
               \A i \in 1..(Len(prev[1].content) - 1) :
                   \/ prev[1].content[i + 1][1] \in Digits
                   \/ BoundaryKept(prev[1].content, i, style)

C1_Witness ==
    /\ Rerendered
    /\ style = "pascal"
    /\ Len(prev[1].content) >= 2
    /\ output = prev[1].output

\* C2 as stated: re-tokenizing the output of any of the eight styles gives
\* back the token sequence it was rendered from.
C2_RetokenizeAllStyles == Retokenized => content = prev[1].content

\* C2 amended: re-tokenizing the output of the six separator-joined styles
\* gives back the token sequence; the output of to_camel_case and
\* to_pascal_case does so exactly when every token boundary is kept.
C2_RetokenizeAmended ==
    Retokenized =>
        IF prev[1].style \in SeparatorStyles
          THEN content = prev[1].content
          ELSE (content = prev[1].content) <=>
               \A i \in 1..(Len(prev[1].content) - 1) :
                   BoundaryKept(prev[1].content, i, prev[1].style)

C2_Witness ==
    /\ Retokenized
    /\ prev[1].style = "camel"
    /\ Len(prev[1].content) >= 2
    /\ content = prev[1].content

\* C3: for a non-empty token sequence, tokenizing the output of
\* to_snake_case gives exactly that token sequence again.
C3_SnakeRoundTrip ==
    (Retokenized /\ prev[1].style = "snake" /\ prev[1].content # <<>>)
        => content = prev[1].content

C3_Witness ==
    /\ Retokenized
    /\ prev[1].style = "snake"
    /\ Len(prev[1].content) >= 2
    /\ input = prev[1].output
    /\ content = prev[1].content

\* C4: every token str_split produces is non-empty and consists solely of
\* lowercase ASCII letters and ASCII digits, whatever the input holds.
C4_TokensWellFormed ==
    \A i \in 1..Len(content) :
        /\ content[i] # <<>>
        /\ \A j \in 1..Len(content[i]) : content[i][j] \in LowerLetters \cup Digits

C4_Witness ==
    /\ \E i \in 1..Len(input) : input[i] = "B"
    /\ \E i \in 1..Len(input) : input[i] \in {"&", "é"}
    /\ \E i \in 1..Len(input) : input[i] \in Separators
    /\ Len(content) >= 2

\* characters str_split recognizes: ASCII letters, digits and the separators
Recognized(c) == IsAsciiAlnum(c) \/ c \in Separators

\* C8: the tokens of a string are the tokens of the string with every
\* unrecognized character removed; such a character is neither content nor
\* a word boundary.
C8_UnrecognizedDeleted == content = str_split(SelectSeq(input, Recognized))

C8_Witness ==
    /\ Len(input) >= 3
    /\ \E i \in 2..(Len(input) - 1) :
          /\ ~Recognized(input[i])
          /\ IsAsciiAlnum(input[i - 1])
          /\ IsAsciiAlnum(input[i + 1])
    /\ content = str_split(SelectSeq(input, Recognized))
    /\ Len(content) = 1

(***************************************************************************)
(* Properties of the path normalizer, checked under SpecPath.              *)
(***************************************************************************)
AllDisabled ==
    [strip_unfriendly_chars |-> FALSE,
     resolve_parent_dirs |-> FALSE,
     collapse_consecutive_slashes |-> FALSE,
     escape_backslashes |-> FALSE]

\* C5: with every toggle disabled fmt_path_str_custom returns the input
\* unchanged, but for a trailing '/' appended when the input ended with one
\* and the result does not.
C5_AllDisabledUnchanged ==
    (called /\ config = AllDisabled) =>
        \/ returned = path
        \/ /\ ends_with_slash(path)
           /\ returned = Append(path, "/")

\* C6 as stated: for an input that ends with '/', under any configuration,
\* the returned string ends with '/'.
C6_TrailingSlashKept ==
    (called /\ ends_with_slash(path)) => ends_with_slash(returned)

\* C6 amended: for an input that ends with '/', under any configuration, the
\* returned string ends with '/', unless the transformed string is exactly
\* "./": then the empty string is returned.
C6_TrailingSlashAmended ==
    (called /\ ends_with_slash(path)) =>
        IF Transformed(path, config) = <<".", "/">>
          THEN returned = <<>>
          ELSE ends_with_slash(returned)

\* a call in which normalize_path dropped the trailing slash and it was
\* put back
C6_Witness ==
    /\ called
    /\ config.resolve_parent_dirs
    /\ ends_with_slash(path)
    /\ Len(returned) >= 2
    /\ returned[1] = "a"
    /\ ends_with_slash(returned)

\* C9: with collapse_consecutive_slashes enabled, whatever the other
\* toggles, the returned string holds no two adjacent forward slashes.
C9_NoAdjacentSlashes ==
    (called /\ config.collapse_consecutive_slashes) =>
        \A i \in 1..(Len(returned) - 1) :
            ~(returned[i] = "/" /\ returned[i + 1] = "/")

\* C10: under the default configuration, normalizing the result of a
\* normalization returns it unchanged.
C10_DefaultIdempotent ==
    (/\ called
     /\ before # <<>>
     /\ before[1].config = DefaultConfig
     /\ config = DefaultConfig) => returned = before[1].returned

\* C11: under the default configuration the result for a path that begins
\* with '/' begins with '/', however many ".." components follow the root.
C11_AbsoluteStaysAbsolute ==
    (/\ called
     /\ config = DefaultConfig
     /\ path # <<>>
     /\ path[1] = "/") => (returned # <<>> /\ returned[1] = "/")

(***************************************************************************)
(* Properties of normalize_path, checked under SpecNorm.                   *)
(***************************************************************************)
\* the components the loop has visited so far
Visited ==
    SubSeq(Components(npath), 1, Len(Components(npath)) - Len(pending))

\* npath is k times "../", or that without its last slash, and then a suffix
HasLeadingParents(k) ==
    /\ Len(npath) >= 3 * k - 1
    /\ \A i \in 1..(3 * k) :
          i <= Len(npath) => npath[i] = (IF i % 3 = 0 THEN "/" ELSE ".")

SuffixAfter(k) == SubSeq(npath, 3 * k + 1, Len(npath))

\* a relative path of regular components only
Regular(s) == \A i \in 1..Len(Components(s)) : Components(s)[i].kind = "Normal"

\* C7: a ".." visited while the stack is empty leaves it empty and is
\* dropped, so that a path of k leading ".." components followed by regular
\* components normalizes to what the regular components alone normalize to.
C7_LeadingParentsDropped ==
    /\ (\A i \in 1..Len(Visited) : Visited[i].kind = "ParentDir")
          => components = <<>>
    /\ npc = "done" =>
          \A k \in 1..MaxNormLen :
              (HasLeadingParents(k) /\ Regular(SuffixAfter(k)))
                  => normalized = normalize_path(SuffixAfter(k))

C7_Witness ==
    /\ npc = "done"
    /\ HasLeadingParents(2)
    /\ SuffixAfter(2) # <<>>
    /\ Regular(SuffixAfter(2))
    /\ normalized = SuffixAfter(2)

====
